---------------------------- MODULE Spec2Model ----------------------------
(***************************************************************************)
(* A model of the code analyzer of src/code-analyzer/analyzer.py           *)
(* (class CodeAnalyzer) as it is called from the worker pool of            *)
(* src/code-analyzer/main.py.  Text is modelled by TLA+ strings, read      *)
(* character by character; Python values that may be of another type than  *)
(* str (the two arguments of analyze_code) carry their type.               *)
(***************************************************************************)
EXTENDS Integers, Sequences, FiniteSets, TLC

(***************************************************************************)
(* Python's str operations, as the analyzer uses them.                     *)
(***************************************************************************)

\* s[i-1] of Python (positions are 1-based here).
Char(s, i) == SubSeq(s, i, i)

\* s[i-1:] of Python.
From(s, i) == SubSeq(s, i, Len(s))

\* str.isspace() of one character, the characters str.strip() removes and
\* the class \s of the re module (ASCII range).
Whitespace == {" ", "\t", "\n", "\r", "\f"}

LowerCase == <<"a","b","c","d","e","f","g","h","i","j","k","l","m",
               "n","o","p","q","r","s","t","u","v","w","x","y","z">>

UpperCase == <<"A","B","C","D","E","F","G","H","I","J","K","L","M",
               "N","O","P","Q","R","S","T","U","V","W","X","Y","Z">>

Digits == {"0","1","2","3","4","5","6","7","8","9"}

Range(f) == {f[i] : i \in DOMAIN f}

\* The class \w of the re module (ASCII range).
WordChars == Range(LowerCase) \cup Range(UpperCase) \cup Digits \cup {"_"}

\* str.lower() of one character.
LowerChar(c) ==
  IF \E i \in DOMAIN UpperCase : UpperCase[i] = c
    THEN LowerCase[CHOOSE i \in DOMAIN UpperCase : UpperCase[i] = c]
    ELSE c

\* str.lower()
RECURSIVE lower(_)
lower(s) == IF Len(s) = 0 THEN "" ELSE LowerChar(Char(s, 1)) \o lower(Tail(s))

\* s.startswith(p, i-1): p occurs in s at position i.
StartsAt(s, i, p) == i + Len(p) - 1 <= Len(s) /\ SubSeq(s, i, i + Len(p) - 1) = p

\* s.startswith(p)
startswith(s, p) == StartsAt(s, 1, p)

\* p in s
Contains(s, p) == \E i \in 1..(Len(s) + 1) : StartsAt(s, i, p)

\* s.find(p) + 1: the first position of p in s, 0 when there is none.
find(s, p) ==
  IF Contains(s, p)
    THEN CHOOSE i \in 1..(Len(s) + 1) :
           StartsAt(s, i, p) /\ \A j \in 1..(i - 1) : ~StartsAt(s, j, p)
    ELSE 0

\* s.rfind(p) + 1: the last position of p in s, 0 when there is none.
rfind(s, p) ==
  IF Contains(s, p)
    THEN CHOOSE i \in 1..(Len(s) + 1) :
           StartsAt(s, i, p) /\ \A j \in (i + 1)..(Len(s) + 1) : ~StartsAt(s, j, p)
    ELSE 0

\* s.count(c) for a one-character c.
count(s, c) == Cardinality({i \in 1..Len(s) : Char(s, i) = c})

\* s.lstrip()
RECURSIVE lstrip(_)
lstrip(s) ==
  IF Len(s) > 0 /\ Char(s, 1) \in Whitespace THEN lstrip(Tail(s)) ELSE s

\* s.rstrip()
RECURSIVE rstrip(_)
rstrip(s) ==
  IF Len(s) > 0 /\ Char(s, Len(s)) \in Whitespace
    THEN rstrip(SubSeq(s, 1, Len(s) - 1))
    ELSE s

\* s.strip()
strip(s) == rstrip(lstrip(s))

\* s.split(sep) for a one-character sep: the pieces between the separators,
\* an empty piece after a trailing separator included.
RECURSIVE split(_, _)
split(s, sep) ==
  LET i == find(s, sep)
  IN  IF i = 0 THEN <<s>> ELSE <<SubSeq(s, 1, i - 1)>> \o split(From(s, i + 1), sep)

(***************************************************************************)
(* The re module: a pattern is a sequence of nodes, matched by             *)
(* backtracking in the order Python's engine tries the alternatives        *)
(* (greedy repeats longest first, lazy ones shortest first, an optional    *)
(* part tried before its absence), so that the groups captured are those   *)
(* of the first match Python finds.                                        *)
(***************************************************************************)

\* Character classes: the characters of "set", or all others when "neg".
Of(S)  == [neg |-> FALSE, set |-> S]
Not(S) == [neg |-> TRUE, set |-> S]
InCls(c, cls) == (c \in cls.set) # cls.neg

ws   == Of(Whitespace)        \* \s
nws  == Not(Whitespace)       \* \S
word == Of(WordChars)         \* \w
any  == Not({"\n"})           \* .

Lit(s)    == <<[k |-> "lit", s |-> s]>>
One(cls)  == <<[k |-> "one", c |-> cls]>>
Star(cls) == <<[k |-> "rep", c |-> cls, min |-> 0, greedy |-> TRUE]>>
Plus(cls) == <<[k |-> "rep", c |-> cls, min |-> 1, greedy |-> TRUE]>>
Lazy(cls) == <<[k |-> "rep", c |-> cls, min |-> 0, greedy |-> FALSE]>>
Opt(r)    == <<[k |-> "opt", r |-> r]>>
Alt(rs)   == <<[k |-> "alt", rs |-> rs]>>
Grp(i, r) == <<[k |-> "open", i |-> i]>> \o r \o <<[k |-> "close", i |-> i]>>
Bol       == <<[k |-> "bol"]>>

\* The groups of a match: <<start, end>> per group, <<0, 0>> for a group
\* that took no part in it (None in Python).
NoGroups == [i \in 1..3 |-> <<0, 0>>]

NoMatch == [ok |-> FALSE, end |-> 0, groups |-> NoGroups]

\* The length of the longest run of characters of cls in s from position i.
RECURSIVE Run(_, _, _)
Run(s, i, cls) ==
  IF i <= Len(s) /\ InCls(Char(s, i), cls) THEN 1 + Run(s, i + 1, cls) ELSE 0

RECURSIVE MatchAt(_, _, _, _)
RECURSIVE TryRep(_, _, _, _, _, _, _)
RECURSIVE TryAlt(_, _, _, _, _)

\* The first match of pattern re in s starting exactly at position pos.
MatchAt(re, s, pos, groups) ==
  IF Len(re) = 0
    THEN [ok |-> TRUE, end |-> pos, groups |-> groups]
    ELSE LET h == Head(re)
             t == Tail(re)
         IN  CASE h.k = "lit" ->
                    IF StartsAt(s, pos, h.s)
                      THEN MatchAt(t, s, pos + Len(h.s), groups)
                      ELSE NoMatch
               [] h.k = "one" ->
                    IF pos <= Len(s) /\ InCls(Char(s, pos), h.c)
                      THEN MatchAt(t, s, pos + 1, groups)
                      ELSE NoMatch
               [] h.k = "rep" ->
                    LET n == Run(s, pos, h.c)
                    IN  IF n < h.min THEN NoMatch
                        ELSE IF h.greedy
                          THEN TryRep(t, s, pos, n, h.min, -1, groups)
                          ELSE TryRep(t, s, pos, h.min, n, 1, groups)
               [] h.k = "opt" ->
                    LET taken == MatchAt(h.r \o t, s, pos, groups)
                    IN  IF taken.ok THEN taken ELSE MatchAt(t, s, pos, groups)
               [] h.k = "alt" -> TryAlt(h.rs, t, s, pos, groups)
               [] h.k = "open" ->
                    MatchAt(t, s, pos, [groups EXCEPT ![h.i] = <<pos, 0>>])
               [] h.k = "close" ->
                    MatchAt(t, s, pos, [groups EXCEPT ![h.i] = <<groups[h.i][1], pos>>])
               [] h.k = "bol" ->
                    IF pos = 1 THEN MatchAt(t, s, pos, groups) ELSE NoMatch

\* A repeat that takes n characters, then n + step, ... up to last.
TryRep(t, s, pos, n, last, step, groups) ==
  LET m == MatchAt(t, s, pos + n, groups)
  IN  IF m.ok THEN m
      ELSE IF n = last THEN NoMatch
      ELSE TryRep(t, s, pos, n + step, last, step, groups)

\* The alternatives rs, in order, each followed by t.
TryAlt(rs, t, s, pos, groups) ==
  IF Len(rs) = 0 THEN NoMatch
  ELSE LET m == MatchAt(Head(rs) \o t, s, pos, groups)
       IN  IF m.ok THEN m ELSE TryAlt(Tail(rs), t, s, pos, groups)

\* re.match(re, s)
match(re, s) == MatchAt(re, s, 1, NoGroups)

RECURSIVE SearchFrom(_, _, _)
SearchFrom(re, s, pos) ==
  LET m == MatchAt(re, s, pos, NoGroups)
  IN  IF m.ok THEN m
      ELSE IF pos > Len(s) THEN NoMatch
      ELSE SearchFrom(re, s, pos + 1)

\* re.search(re, s)
search(re, s) == SearchFrom(re, s, 1)

\* m.group(i) of a match m in s; "" stands for None and for an empty group
\* alike (the analyzer only tests groups for truth).
group(m, s, i) ==
  IF m.groups[i][1] = 0 THEN "" ELSE SubSeq(s, m.groups[i][1], m.groups[i][2] - 1)

(***************************************************************************)
(* The patterns of the analyzer.                                           *)
(***************************************************************************)

quote == Of({"'", "\""})                                   \* ['"]
Params == Lit("(") \o Grp(2, Lazy(any)) \o Lit(")")         \* \((.*?)\)
Name == Grp(1, Plus(word))                                  \* (\w+)
Declarator == Alt(<<Lit("const"), Lit("let"), Lit("var")>>) \* (?:const|let|var)

\* ^\s*#
PyCommentPattern == Bol \o Star(ws) \o Lit("#")

\* ^\s*(//)|(^\s*/\*)
SlashCommentPattern ==
  Alt(<< Bol \o Star(ws) \o Grp(1, Lit("//")),
         Grp(2, Bol \o Star(ws) \o Lit("/") \o Lit("*")) >>)

\* def\s+(\w+)\s*\((.*?)\):
PyFuncPattern == Lit("def") \o Plus(ws) \o Name \o Star(ws) \o Params \o Lit(":")

\* class\s+(\w+)(?:\([^)]*\))?:
PyClassPattern ==
  Lit("class") \o Plus(ws) \o Name
    \o Opt(Lit("(") \o Star(Not({")"})) \o Lit(")")) \o Lit(":")

\* (?:from\s+(\S+)\s+)?import\s+(.+)
PyImportPattern ==
  Opt(Lit("from") \o Plus(ws) \o Grp(1, Plus(nws)) \o Plus(ws))
    \o Lit("import") \o Plus(ws) \o Grp(2, Plus(any))

\* The four function patterns of _extract_js_structure, in its order.
JsFuncPatterns ==
  << Lit("function") \o Plus(ws) \o Name \o Star(ws) \o Params,
     Declarator \o Plus(ws) \o Name \o Star(ws) \o Lit("=") \o Star(ws)
       \o Params \o Star(ws) \o Lit("=>"),
     Declarator \o Plus(ws) \o Name \o Star(ws) \o Lit("=") \o Star(ws)
       \o Lit("function") \o Star(ws) \o Params,
     Name \o Star(ws) \o Lit(":") \o Star(ws) \o Params \o Star(ws) \o Lit("=>") >>

\* class\s+(\w+)
JsClassPattern == Lit("class") \o Plus(ws) \o Name

\* The two import patterns of _extract_js_structure, in its order.
JsImportPatterns ==
  << Lit("import") \o Plus(ws) \o Lazy(any) \o Plus(ws) \o Lit("from") \o Plus(ws)
       \o One(quote) \o Grp(1, Plus(Not({"'", "\""}))) \o One(quote),
     Lit("import") \o Plus(ws)
       \o One(quote) \o Grp(1, Plus(Not({"'", "\""}))) \o One(quote) >>

\* (?:public|private|protected)?\s*(?:static)?\s*\w+\s+(\w+)\s*\((.*?)\)
JavaMethodPattern ==
  Opt(Alt(<<Lit("public"), Lit("private"), Lit("protected")>>)) \o Star(ws)
    \o Opt(Lit("static")) \o Star(ws) \o Plus(word) \o Plus(ws)
    \o Name \o Star(ws) \o Params

\* (?:public|private)?\s*class\s+(\w+)
JavaClassPattern ==
  Opt(Alt(<<Lit("public"), Lit("private")>>)) \o Star(ws)
    \o Lit("class") \o Plus(ws) \o Name

\* import\s+([^;]+);
JavaImportPattern ==
  Lit("import") \o Plus(ws) \o Grp(1, Plus(Not({";"}))) \o Lit(";")

\* func\s+(?:\([^)]*\)\s*)?(\w+)\s*\((.*?)\)
GoFuncPattern ==
  Lit("func") \o Plus(ws)
    \o Opt(Lit("(") \o Star(Not({")"})) \o Lit(")") \o Star(ws))
    \o Name \o Star(ws) \o Params

\* type\s+(\w+)\s+struct
GoStructPattern == Lit("type") \o Plus(ws) \o Name \o Plus(ws) \o Lit("struct")

\* import\s+(?:"([^"]+)"|(\w+)\s+"([^"]+)")
GoImportPattern ==
  Lit("import") \o Plus(ws)
    \o Alt(<< Lit("\"") \o Grp(1, Plus(Not({"\""}))) \o Lit("\""),
              Grp(2, Plus(word)) \o Plus(ws)
                \o Lit("\"") \o Grp(3, Plus(Not({"\""}))) \o Lit("\"") >>)

(***************************************************************************)
(* Python values whose type the code does not fix.                         *)
(***************************************************************************)

Str(s) == [type |-> "str", val |-> s]
None == [type |-> "NoneType"]
IsStr(v) == v.type = "str"

\* str(e) of the AttributeError that x.attr raises when x is None.
AttributeError(attr) == "'NoneType' object has no attribute '" \o attr \o "'"

\* float(n) of an integer n: the float of that value.
float(n) == [float |-> n]

max(a, b) == IF a >= b THEN a ELSE b
min(a, b) == IF a <= b THEN a ELSE b

(***************************************************************************)
(* CodeAnalyzer.detect_language                                            *)
(***************************************************************************)

\* os.path.splitext(p)[1] (posixpath): the text from the last "." of the
\* last path component, "" when that component has no "." or only leading ones.
splitext_ext(p) ==
  LET sepIndex == rfind(p, "/")
      dotIndex == rfind(p, ".")
  IN  IF /\ dotIndex > sepIndex
         /\ \E j \in (sepIndex + 1)..(dotIndex - 1) : Char(p, j) # "."
        THEN From(p, dotIndex)
        ELSE ""

ext_map ==
  [e \in {".py", ".js", ".jsx", ".ts", ".tsx", ".java", ".go"} |->
     CASE e = ".py" -> "python"
       [] e \in {".js", ".jsx"} -> "javascript"
       [] e \in {".ts", ".tsx"} -> "typescript"
       [] e = ".java" -> "java"
       [] e = ".go" -> "go"]

\* detect_language without filename.lower().
detect_language_case_sensitive(filename) ==
  LET ext == splitext_ext(filename)
  IN  IF ext \in DOMAIN ext_map THEN ext_map[ext] ELSE "unknown"

detect_language(filename) ==
  LET ext == splitext_ext(lower(filename))
  IN  IF ext \in DOMAIN ext_map THEN ext_map[ext] ELSE "unknown"

(***************************************************************************)
(* CodeAnalyzer._get_basic_stats                                           *)
(***************************************************************************)

comment_pattern(language) ==
  IF language \in {"javascript", "typescript", "java", "go"}
    THEN SlashCommentPattern
    ELSE PyCommentPattern

\* len([x for x in lines if P(x)]) for the set of indices where P holds.
get_basic_stats(code, language) ==
  LET lines == split(code, "\n")
      pattern == comment_pattern(language)
  IN  [ total_lines     |-> Len(lines),
        non_empty_lines |-> Cardinality({i \in DOMAIN lines : strip(lines[i]) # ""}),
        comment_lines   |-> Cardinality({i \in DOMAIN lines : match(pattern, lines[i]).ok}),
        characters      |-> Len(code),
        functions_count |-> 0,
        classes_count   |-> 0 ]

empty_stats ==
  [ total_lines |-> 0, non_empty_lines |-> 0, comment_lines |-> 0,
    characters |-> 0, functions_count |-> 0, classes_count |-> 0 ]

(***************************************************************************)
(* CodeAnalyzer._extract_structure and its four strategies.  Each strategy *)
(* walks the lines in order; what one line appends is given per kind.      *)
(***************************************************************************)

FunctionEntry(m, s, n, type) ==
  [ name |-> group(m, s, 1), parameters |-> group(m, s, 2), line_number |-> n,
    docstring |-> "", type |-> type ]

ClassEntry(m, s, n) ==
  [ name |-> group(m, s, 1), line_number |-> n, methods |-> <<>>, docstring |-> "" ]

ImportEntry(module, n, alias) ==
  [ module |-> module, line_number |-> n, alias |-> alias ]

EmptyStructure == [functions |-> <<>>, classes |-> <<>>, imports |-> <<>>]

\* The appends of the lines, in line order.
RECURSIVE Gather(_)
Gather(parts) ==
  IF Len(parts) = 0 THEN EmptyStructure
  ELSE LET rest == Gather(Tail(parts))
       IN  [ functions |-> Head(parts).functions \o rest.functions,
             classes   |-> Head(parts).classes \o rest.classes,
             imports   |-> Head(parts).imports \o rest.imports ]

\* enumerate(lines): line i of the code has index i - 1 in Python and is
\* given line_number i.
line_number(i) == i

PyFunctions(stripped, n) ==
  LET m == match(PyFuncPattern, stripped)
  IN  IF m.ok THEN <<FunctionEntry(m, stripped, n, "function")>> ELSE <<>>

PyClasses(stripped, n) ==
  LET m == match(PyClassPattern, stripped)
  IN  IF m.ok THEN <<ClassEntry(m, stripped, n)>> ELSE <<>>

PyImports(stripped, n) ==
  LET m == match(PyImportPattern, stripped)
      first == strip(split(group(m, stripped, 2), ",")[1])
      module == IF group(m, stripped, 1) # ""
                  THEN group(m, stripped, 1) \o "." \o first
                  ELSE first
  IN  IF m.ok THEN <<ImportEntry(module, n, "")>> ELSE <<>>

extract_python_structure(code) ==
  LET lines == split(code, "\n")
  IN  Gather([i \in DOMAIN lines |->
        LET stripped == strip(lines[i])
        IN  [ functions |-> PyFunctions(stripped, line_number(i)),
              classes   |-> PyClasses(stripped, line_number(i)),
              imports   |-> PyImports(stripped, line_number(i)) ]])

\* for pattern in patterns: ... if match: append; break
RECURSIVE FirstSearch(_, _)
FirstSearch(patterns, stripped) ==
  IF Len(patterns) = 0 THEN NoMatch
  ELSE LET m == search(Head(patterns), stripped)
       IN  IF m.ok THEN m ELSE FirstSearch(Tail(patterns), stripped)

\* The loop over the function patterns without its break.
JsFunctionsNoBreak(stripped, n) ==
  LET hits == SelectSeq(JsFuncPatterns, LAMBDA pat : search(pat, stripped).ok)
  IN  [i \in DOMAIN hits |->
         FunctionEntry(search(hits[i], stripped), stripped, n, "function")]

JsFunctions(stripped, n) ==
  LET m == FirstSearch(JsFuncPatterns, stripped)
  IN  IF m.ok THEN <<FunctionEntry(m, stripped, n, "function")>> ELSE <<>>

JsClasses(stripped, n) ==
  LET m == match(JsClassPattern, stripped)
  IN  IF m.ok THEN <<ClassEntry(m, stripped, n)>> ELSE <<>>

JsImports(stripped, n) ==
  LET m == FirstSearch(JsImportPatterns, stripped)
  IN  IF m.ok THEN <<ImportEntry(group(m, stripped, 1), n, "")>> ELSE <<>>

extract_js_structure(code) ==
  LET lines == split(code, "\n")
  IN  Gather([i \in DOMAIN lines |->
        LET stripped == strip(lines[i])
        IN  [ functions |-> JsFunctions(stripped, line_number(i)),
              classes   |-> JsClasses(stripped, line_number(i)),
              imports   |-> JsImports(stripped, line_number(i)) ]])

JavaFunctions(stripped, n) ==
  LET m == search(JavaMethodPattern, stripped)
  IN  IF m.ok /\ ~Contains(stripped, "class") /\ ~Contains(stripped, "interface")
        THEN <<FunctionEntry(m, stripped, n, "method")>>
        ELSE <<>>

JavaClasses(stripped, n) ==
  LET m == match(JavaClassPattern, stripped)
  IN  IF m.ok THEN <<ClassEntry(m, stripped, n)>> ELSE <<>>

JavaImports(stripped, n) ==
  LET m == match(JavaImportPattern, stripped)
  IN  IF m.ok THEN <<ImportEntry(group(m, stripped, 1), n, "")>> ELSE <<>>

extract_java_structure(code) ==
  LET lines == split(code, "\n")
  IN  Gather([i \in DOMAIN lines |->
        LET stripped == strip(lines[i])
        IN  [ functions |-> JavaFunctions(stripped, line_number(i)),
              classes   |-> JavaClasses(stripped, line_number(i)),
              imports   |-> JavaImports(stripped, line_number(i)) ]])

GoFunctions(stripped, n) ==
  LET m == match(GoFuncPattern, stripped)
  IN  IF m.ok THEN <<FunctionEntry(m, stripped, n, "function")>> ELSE <<>>

GoClasses(stripped, n) ==
  LET m == match(GoStructPattern, stripped)
  IN  IF m.ok THEN <<ClassEntry(m, stripped, n)>> ELSE <<>>

GoImports(stripped, n) ==
  LET m == match(GoImportPattern, stripped)
      module == IF group(m, stripped, 1) # ""
                  THEN group(m, stripped, 1)
                  ELSE group(m, stripped, 3)
  IN  IF m.ok THEN <<ImportEntry(module, n, group(m, stripped, 2))>> ELSE <<>>

extract_go_structure(code) ==
  LET lines == split(code, "\n")
  IN  Gather([i \in DOMAIN lines |->
        LET stripped == strip(lines[i])
        IN  [ functions |-> GoFunctions(stripped, line_number(i)),
              classes   |-> GoClasses(stripped, line_number(i)),
              imports   |-> GoImports(stripped, line_number(i)) ]])

extract_structure(code, language) ==
  CASE language = "python" -> extract_python_structure(code)
    [] language \in {"javascript", "typescript"} -> extract_js_structure(code)
    [] language = "java" -> extract_java_structure(code)
    [] language = "go" -> extract_go_structure(code)
    [] OTHER -> EmptyStructure

(***************************************************************************)
(* CodeAnalyzer._calculate_complexity and _calculate_nesting_depth         *)
(***************************************************************************)

\* The cap on the reported cyclomatic complexity.
CyclomaticCap == 50

DefaultKeywords == <<"if", "for", "while">>

\* complexity_keywords.get(language) with the python list as the default.
complexity_keywords_python_default(language) ==
  CASE language \in {"javascript", "typescript", "java"} ->
         <<"if", "for", "while", "try", "catch", "switch">>
    [] language = "go" -> <<"if", "for", "switch", "select">>
    [] OTHER -> <<"if", "elif", "for", "while", "try", "except", "with">>

complexity_keywords(language) ==
  CASE language = "python" ->
         <<"if", "elif", "for", "while", "try", "except", "with">>
    [] language \in {"javascript", "typescript", "java"} ->
         <<"if", "for", "while", "try", "catch", "switch">>
    [] language = "go" -> <<"if", "for", "switch", "select">>
    [] OTHER -> DefaultKeywords

\* f' {keyword} ' in f' {line} ' or line.strip().startswith(keyword + ' ')
Qualifies(line, keyword) ==
  \/ Contains(" " \o line \o " ", " " \o keyword \o " ")
  \/ startswith(strip(line), keyword \o " ")

\* The loop over the keywords with a break after the first increment.
LineIncrementsBreak(line, keywords) ==
  IF \E i \in DOMAIN keywords : Qualifies(line, keywords[i]) THEN 1 ELSE 0

\* for keyword in keywords: if ...: cyclomatic += 1, for one line.
RECURSIVE LineIncrements(_, _)
LineIncrements(line, keywords) ==
  IF Len(keywords) = 0 THEN 0
  ELSE (IF Qualifies(line, Head(keywords)) THEN 1 ELSE 0)
         + LineIncrements(line, Tail(keywords))

\* for line in lines: ..., from cyclomatic = 1.
RECURSIVE Cyclomatic(_, _)
Cyclomatic(lines, keywords) ==
  IF Len(lines) = 0 THEN 1
  ELSE Cyclomatic(SubSeq(lines, 1, Len(lines) - 1), keywords)
         + LineIncrements(lines[Len(lines)], keywords)

\* Python's floor division by 4 of a natural number.
indent_level(line) == (Len(line) - Len(lstrip(line))) \div 4

\* The loop of the python branch: the deepest indent level of a non-blank line.
RECURSIVE IndentDepth(_, _)
IndentDepth(lines, max_depth) ==
  IF Len(lines) = 0 THEN max_depth
  ELSE IndentDepth(Tail(lines),
         IF strip(Head(lines)) # ""
           THEN max(max_depth, indent_level(Head(lines)))
           ELSE max_depth)

\* The loop of the other branch: the running brace counter and its peak.
RECURSIVE BraceDepth(_, _, _)
BraceDepth(lines, current_depth, max_depth) ==
  IF Len(lines) = 0 THEN max_depth
  ELSE LET depth == current_depth + count(Head(lines), "{") - count(Head(lines), "}")
       IN  BraceDepth(Tail(lines), depth, max(max_depth, depth))

\* The brace branch reporting the counter at the end of the file.
calculate_nesting_depth_final(code, language) ==
  LET lines == split(code, "\n")
  IN  IF language = "python"
        THEN IndentDepth(lines, 0)
        ELSE max(0, count(code, "{") - count(code, "}"))

calculate_nesting_depth(code, language) ==
  LET lines == split(code, "\n")
  IN  IF language = "python"
        THEN IndentDepth(lines, 0)
        ELSE BraceDepth(lines, 0, 0)

\* The index without its floor at 0.
maintainability_unfloored(cyclomatic, max_depth) ==
  100 - cyclomatic * 2 - max_depth * 5

\* max(0, 100 - cyclomatic * 2 - max_depth * 5)
maintainability(cyclomatic, max_depth) ==
  max(0, 100 - cyclomatic * 2 - max_depth * 5)

\* The complexity record with the cyclomatic value as counted, uncapped.
calculate_complexity_uncapped(code, language) ==
  LET lines == split(code, "\n")
      cyclomatic == Cyclomatic(lines, complexity_keywords(language))
      max_depth == calculate_nesting_depth(code, language)
  IN  [ cyclomatic_complexity |-> cyclomatic,
        nesting_depth         |-> max_depth,
        maintainability_index |-> float(maintainability(cyclomatic, max_depth)) ]

calculate_complexity(code, language) ==
  LET lines == split(code, "\n")
      cyclomatic == Cyclomatic(lines, complexity_keywords(language))
      max_depth == calculate_nesting_depth(code, language)
  IN  [ cyclomatic_complexity |-> min(cyclomatic, CyclomaticCap),
        nesting_depth         |-> max_depth,
        maintainability_index |-> float(maintainability(cyclomatic, max_depth)) ]

(***************************************************************************)
(* The requests: file names and contents the callers send.                 *)
(***************************************************************************)

\* The longest content built from CoreLines, in lines.
MaxLines == 3

\* The number of times DenseLine is repeated in a long content.
MaxRepeat == 17

\* The worker threads of the pool (main.py starts 10).
MaxWorkers == 2

\* The calls made in one run of the pool.
MaxCalls == 2

RECURSIVE Join(_)
Join(lines) ==
  IF Len(lines) = 1 THEN lines[1] ELSE lines[1] \o "\n" \o Join(Tail(lines))

RECURSIVE Repeat(_, _)
Repeat(s, n) == IF n = 0 THEN "" ELSE s \o Repeat(s, n - 1)

FileNames ==
  { "sample.py", "x.go", "note.txt", "App.JSX", "m.js", "a.ts", "b.tsx",
    "Main.java", ".py", "..py", "Makefile", "x.", "dir.py/readme", "a.b.PY" }

CoreLines ==
  { "", "if a { for b {", "} }", "        while x if y if z:", "\tif q\tfor }" }

DenseLine == "if elif for while try except with catch switch select x"

ScenarioA == "def foo(a, b):\n    if a:\n        return b\n"

ScenarioB == "import \"fmt\"\nfunc main() {\n}\n"

PythonSample ==
  Join(<< "import os, sys",
          "from a.b import c , d",
          "# a class",
          "class K(Base):",
          "    def m(self):",
          "        for x in y: pass",
          "class K: import z" >>)

JsSample ==
  Join(<< "import React from 'react'",
          "// a class",
          "class App extends C {",
          "  render: (a) => { if (a) { for (;;) {} } }",
          "}",
          "const f = (x) => x; function g(y) {}",
          "let h = function (z) { try { } catch (e) { } }",
          "}}" >>)

JavaSample ==
  Join(<< "import java.util.*;",
          "public class Main {",
          "  public static void main(String[] args) {",
          "    if (x) { while (y) { foo(bar); } }",
          "  }",
          "  private int classify(int a) { return a; }",
          "}" >>)

GoSample ==
  Join(<< "import f \"fmt\"",
          "type S struct {",
          "}",
          "func (s *S) Run(x int) error {",
          "  for i := range x { select { } }",
          "}" >>)

Samples == {ScenarioA, ScenarioB, PythonSample, JsSample, JavaSample, GoSample}

ShortContents ==
  {Join(ls) : ls \in UNION {[1..n -> CoreLines] : n \in 1..MaxLines}}

LongContents ==
  {Repeat(DenseLine \o "\n", n) : n \in {MaxRepeat \div 2, MaxRepeat}}

\* An argument is a str, or None when the caller has none.
Filenames == {Str(f) : f \in FileNames} \cup {None}
Contents == {Str(c) : c \in ShortContents \cup Samples \cup LongContents} \cup {None}

PoolFilenames == {Str("sample.py"), Str("x.go")}
PoolContents == {Str(ScenarioA), Str(ScenarioB), None}

(***************************************************************************)
(* The analyzer instance and the calls of analyze_code in progress.        *)
(***************************************************************************)

VARIABLES
  supported_languages,  \* self.supported_languages of the one CodeAnalyzer
  pc,                   \* per worker: the statement of analyze_code it is at
  filename,             \* per worker: the argument filename
  code_content,         \* per worker: the argument code_content
  language,             \* per worker: the local language
  stats,                \* per worker: the local stats
  structure,            \* per worker: the local structure
  complexity,           \* per worker: the local complexity
  error,                \* per worker: str(e) of the exception being handled
  calls,                \* the number of calls made so far
  returned              \* what the calls returned, with their arguments

vars == << supported_languages, pc, filename, code_content, language, stats,
           structure, complexity, error, calls, returned >>

locals == <<language, stats, structure, complexity, error>>

Workers == 1..MaxWorkers

\* CodeAnalyzer.__init__; every worker idle.
Init ==
  /\ supported_languages = <<"python", "javascript", "java", "go", "typescript">>
  /\ pc = [w \in Workers |-> "idle"]
  /\ filename = [w \in Workers |-> None]
  /\ code_content = [w \in Workers |-> None]
  /\ language = [w \in Workers |-> None]
  /\ stats = [w \in Workers |-> None]
  /\ structure = [w \in Workers |-> None]
  /\ complexity = [w \in Workers |-> None]
  /\ error = [w \in Workers |-> None]
  /\ calls = 0
  /\ returned = {}

\* A worker of the pool takes a request and enters analyze_code.
Call(w, names, contents, limit) ==
  /\ pc[w] = "idle"
  /\ calls < limit
  /\ \E f \in names, c \in contents :
       /\ filename' = [filename EXCEPT ![w] = f]
       /\ code_content' = [code_content EXCEPT ![w] = c]
  /\ pc' = [pc EXCEPT ![w] = "detect"]
  /\ calls' = calls + 1
  /\ UNCHANGED <<supported_languages, locals, returned>>

\* raise inside the try block: control goes to the except clause.
Raise(w, message) ==
  /\ error' = [error EXCEPT ![w] = message]
  /\ pc' = [pc EXCEPT ![w] = "except"]

\* language = self.detect_language(filename)
DetectLanguage(w) ==
  /\ pc[w] = "detect"
  /\ IF IsStr(filename[w])
       THEN /\ language' = [language EXCEPT ![w] = detect_language(filename[w].val)]
            /\ pc' = [pc EXCEPT ![w] = "stats"]
            /\ UNCHANGED error
       ELSE /\ Raise(w, AttributeError("lower"))
            /\ UNCHANGED language
  /\ UNCHANGED <<supported_languages, filename, code_content, stats, structure,
                 complexity, calls, returned>>

\* stats = self._get_basic_stats(code_content, language)
GetBasicStats(w) ==
  /\ pc[w] = "stats"
  /\ IF IsStr(code_content[w])
       THEN /\ stats' = [stats EXCEPT ![w] =
                           get_basic_stats(code_content[w].val, language[w])]
            /\ pc' = [pc EXCEPT ![w] = "structure"]
            /\ UNCHANGED error
       ELSE /\ Raise(w, AttributeError("split"))
            /\ UNCHANGED stats
  /\ UNCHANGED <<supported_languages, filename, code_content, language, structure,
                 complexity, calls, returned>>

\* structure = self._extract_structure(code_content, language)
ExtractStructure(w) ==
  /\ pc[w] = "structure"
  /\ structure' = [structure EXCEPT ![w] =
                     extract_structure(code_content[w].val, language[w])]
  /\ pc' = [pc EXCEPT ![w] = "counts"]
  /\ UNCHANGED <<supported_languages, filename, code_content, language, stats,
                 complexity, error, calls, returned>>

\* The two assignments left out: the counts stay those of _get_basic_stats.
fold_counts_skipped(st, struct) == st

\* stats['functions_count'] = len(structure['functions'])
\* stats['classes_count'] = len(structure['classes'])
fold_counts(st, struct) ==
  [st EXCEPT !.functions_count = Len(struct.functions),
             !.classes_count = Len(struct.classes)]

FoldCounts(w) ==
  /\ pc[w] = "counts"
  /\ stats' = [stats EXCEPT ![w] = fold_counts(stats[w], structure[w])]
  /\ pc' = [pc EXCEPT ![w] = "complexity"]
  /\ UNCHANGED <<supported_languages, filename, code_content, language, structure,
                 complexity, error, calls, returned>>

\* complexity = self._calculate_complexity(code_content, language)
CalculateComplexity(w) ==
  /\ pc[w] = "complexity"
  /\ complexity' = [complexity EXCEPT ![w] =
                      calculate_complexity(code_content[w].val, language[w])]
  /\ pc' = [pc EXCEPT ![w] = "return"]
  /\ UNCHANGED <<supported_languages, filename, code_content, language, stats,
                 structure, error, calls, returned>>

\* The result with a count that the instance keeps across its calls.
SuccessResultAccumulating(w) ==
  [ filename      |-> filename[w],
    language      |-> language[w],
    stats         |-> [stats[w] EXCEPT !.total_lines = @ + Cardinality(returned)],
    structure     |-> structure[w],
    complexity    |-> complexity[w],
    success       |-> TRUE,
    error_message |-> "" ]

\* The record of the return statement of the try block.
SuccessResult(w) ==
  [ filename      |-> filename[w],
    language      |-> language[w],
    stats         |-> stats[w],
    structure     |-> structure[w],
    complexity    |-> complexity[w],
    success       |-> TRUE,
    error_message |-> "" ]

\* The failure record with the language the call had detected.
FailureResultPartial(w) ==
  [ filename      |-> filename[w],
    language      |-> IF IsStr(filename[w]) THEN language[w] ELSE "unknown",
    stats         |-> empty_stats,
    structure     |-> EmptyStructure,
    complexity    |-> [ cyclomatic_complexity |-> 0, nesting_depth |-> 0,
                        maintainability_index |-> float(0) ],
    success       |-> FALSE,
    error_message |-> error[w] ]

\* The record of the return statement of the except clause.
FailureResult(w) ==
  [ filename      |-> filename[w],
    language      |-> "unknown",
    stats         |-> empty_stats,
    structure     |-> EmptyStructure,
    complexity    |-> [ cyclomatic_complexity |-> 0, nesting_depth |-> 0,
                        maintainability_index |-> float(0) ],
    success       |-> FALSE,
    error_message |-> error[w] ]

\* The call ends: its frame is dropped and the caller has the result.
Leave(w, via, result) ==
  /\ returned' = returned \cup
       {[ worker |-> w, filename |-> filename[w], code_content |-> code_content[w],
          via |-> via, result |-> result ]}
  /\ pc' = [pc EXCEPT ![w] = "idle"]
  /\ filename' = [filename EXCEPT ![w] = None]
  /\ code_content' = [code_content EXCEPT ![w] = None]
  /\ language' = [language EXCEPT ![w] = None]
  /\ stats' = [stats EXCEPT ![w] = None]
  /\ structure' = [structure EXCEPT ![w] = None]
  /\ complexity' = [complexity EXCEPT ![w] = None]
  /\ error' = [error EXCEPT ![w] = None]
  /\ UNCHANGED <<supported_languages, calls>>

\* return {...} of the try block
Return(w) ==
  /\ pc[w] = "return"
  /\ Leave(w, "try", SuccessResult(w))

\* except Exception as e: ... return {...}
Except(w) ==
  /\ pc[w] = "except"
  /\ Leave(w, "except", FailureResult(w))

\* One statement of the call worker w is in.
Step(w) ==
  \/ DetectLanguage(w)
  \/ GetBasicStats(w)
  \/ ExtractStructure(w)
  \/ FoldCounts(w)
  \/ CalculateComplexity(w)
  \/ Return(w)
  \/ Except(w)

\* One call at a time, over all the requests.
Next == Call(1, Filenames, Contents, 1) \/ Step(1)

Spec == Init /\ [][Next]_vars

\* The pool: the workers run their calls interleaved, on the one analyzer.
NextPool ==
  \E w \in Workers : Call(w, PoolFilenames, PoolContents, MaxCalls) \/ Step(w)

SpecPool == Init /\ [][NextPool]_vars

(***************************************************************************)
(* The properties.  A result is an entry r of returned: r.result is what   *)
(* analyze_code returned for (r.filename, r.code_content), and r.via the   *)
(* return statement that produced it.                                      *)
(***************************************************************************)

Entries(r) == <<r.result.structure.functions, r.result.structure.classes,
                r.result.structure.imports>>

Failed(r) ==
  r.via = "except" \/ ~IsStr(r.filename) \/ ~IsStr(r.code_content)

\* The uncapped cyclomatic value of the content of r for the language of r.
Uncapped(r) ==
  Cyclomatic(split(r.code_content.val, "\n"), complexity_keywords(r.result.language))

\* C1: a call in which a sub-step raised returns, through the except clause,
\* the failure record: success false, language unknown, the three sequences
\* empty, the stats empty, complexity {0, 0, 0.0} and a non-empty message;
\* nothing computed before the fault is in it.
FaultYieldsFailureRecord ==
  \A r \in returned :
    Failed(r) =>
      /\ r.via = "except"
      /\ r.result.success = FALSE
      /\ r.result.language = "unknown"
      /\ \A k \in 1..3 : Len(Entries(r)[k]) = 0
      /\ r.result.stats = empty_stats
      /\ r.result.complexity.cyclomatic_complexity = 0
      /\ r.result.complexity.nesting_depth = 0
      /\ r.result.complexity.maintainability_index = float(0)
      /\ r.result.error_message # ""
      /\ r.result.filename = r.filename

\* C1 witness: the language of sample.py was detected, then the statistics
\* step raised on a content that is not a str.
FaultAfterDetection ==
  \E r \in returned :
    /\ r.filename = Str("sample.py")
    /\ ~IsStr(r.code_content)
    /\ r.via = "except"
    /\ r.result.language = "unknown"

\* C2 as claimed: the cyclomatic complexity of every result, the failure
\* record included, is at least 1 and at most 50.
CyclomaticInRangeAlways ==
  \A r \in returned :
    /\ r.result.complexity.cyclomatic_complexity >= 1
    /\ r.result.complexity.cyclomatic_complexity <= 50

\* C2 as amended: the cyclomatic complexity of a successful result is at
\* least 1 and at most 50; that of the failure record is 0.
CyclomaticInRangeOnSuccess ==
  \A r \in returned :
    IF r.result.success
      THEN /\ r.result.complexity.cyclomatic_complexity >= 1
           /\ r.result.complexity.cyclomatic_complexity <= 50
      ELSE r.result.complexity.cyclomatic_complexity = 0

\* C2 witness: more than 49 qualifying keyword occurrences, reported as 50.
CyclomaticCapped ==
  \E r \in returned :
    /\ r.result.success
    /\ Uncapped(r) - 1 > 49
    /\ r.result.complexity.cyclomatic_complexity = 50

\* The language of an extension (without its dot), as the spec tabulates it.
LanguageOfExtension(ext) ==
  CASE ext = "py" -> "python"
    [] ext \in {"js", "jsx"} -> "javascript"
    [] ext \in {"ts", "tsx"} -> "typescript"
    [] ext = "java" -> "java"
    [] ext = "go" -> "go"
    [] OTHER -> "unknown"

\* The substring after the last "." of s, "" when s has no ".".
AfterLastDot(s) ==
  LET pieces == split(s, ".")
  IN  IF Len(pieces) = 1 THEN "" ELSE pieces[Len(pieces)]

\* The extension as os.path.splitext sees it: that of the last component of
\* the path, and none when only dots precede the last "." of that component.
FileExtension(s) ==
  LET parts == split(s, "/")
      base == parts[Len(parts)]
      pieces == split(base, ".")
  IN  IF Len(pieces) = 1 \/ \A i \in 1..(Len(pieces) - 1) : pieces[i] = ""
        THEN ""
        ELSE pieces[Len(pieces)]

\* The calls that have just detected their language.
Detected == {w \in Workers : pc[w] = "stats"}

MaintainabilityFromReported ==
  \A r \in returned :
    r.result.success =>
      LET c == r.result.complexity.cyclomatic_complexity
          d == r.result.complexity.nesting_depth
          m == 100 - 2 * c - 5 * d
      IN  r.result.complexity.maintainability_index
            = float(IF m > 0 THEN m ELSE 0)

\* C4 witness: the uncapped count exceeds 50 and the index is 0.0.
MaintainabilityFloored ==
  \E r \in returned :
    /\ r.result.success
    /\ Uncapped(r) > 50
    /\ r.result.complexity.maintainability_index = float(0)

\* The lines of s and the (line, keyword) pairs that count: the keyword is
\* one of the space-separated pieces of the line, or the trimmed line starts
\* with the keyword and a space.
QualifyingPairs(s, keywords) ==
  LET lines == split(s, "\n")
  IN  { p \in (DOMAIN lines) \X keywords :
          \/ p[2] \in Range(split(lines[p[1]], " "))
          \/ startswith(strip(lines[p[1]]), p[2] \o " ") }

\* C5: a file name whose extension is not in the table gives, for any text,
\* success with language unknown, empty sequences, and a cyclomatic
\* complexity counted with {if, for, while} only.
UnknownLanguageResult ==
  \A r \in returned :
    (/\ IsStr(r.filename) /\ IsStr(r.code_content)
     /\ FileExtension(lower(r.filename.val))
          \notin {"py", "js", "jsx", "ts", "tsx", "java", "go"})
    => /\ r.result.success
       /\ r.result.language = "unknown"
       /\ \A k \in 1..3 : Len(Entries(r)[k]) = 0
       /\ r.result.complexity.cyclomatic_complexity
            = min(1 + Cardinality(QualifyingPairs(r.code_content.val,
                                                  {"if", "for", "while"})), 50)

\* C5 witness: note.txt with lines that hold elif, try, catch, switch and
\* select beside if, for and while: three per line are counted.
UnknownCountsDefaultOnly ==
  \E r \in returned :
    /\ r.filename = Str("note.txt")
    /\ r.code_content = Str(Repeat(DenseLine \o "\n", MaxRepeat \div 2))
    /\ r.result.success
    /\ r.result.complexity.cyclomatic_complexity = 1 + 3 * (MaxRepeat \div 2)

\* C6: in every result the two counts of stats are the lengths of the
\* sequences of structure.
CountsMatchStructure ==
  \A r \in returned :
    /\ r.result.stats.functions_count = Len(r.result.structure.functions)
    /\ r.result.stats.classes_count = Len(r.result.structure.classes)

\* C6 witness: a result with functions and classes.
CountsFolded ==
  \E r \in returned :
    /\ r.result.stats.functions_count >= 2
    /\ r.result.stats.classes_count >= 1

LineNumbersIncreaseWithinFile ==
  \A r \in returned :
    \A k \in 1..3 :
      LET seq == Entries(r)[k]
      IN  /\ \A i \in DOMAIN seq :
               seq[i].line_number >= 1
                 /\ seq[i].line_number <= r.result.stats.total_lines
          /\ \A i \in 1..(Len(seq) - 1) :
               seq[i].line_number < seq[i + 1].line_number

\* C8 witness: a javascript result with several functions, one of them from
\* a line that two of the function patterns match.
SeveralDeclarations ==
  \E r \in returned :
    /\ r.code_content = Str(JsSample)
    /\ r.result.language = "javascript"
    /\ Len(r.result.structure.functions) = 3
    /\ Len(r.result.structure.imports) = 1

\* The number of "{" less the number of "}" in the first n lines of s.
Balance(s, n) ==
  LET lines == split(s, "\n")
      prefix == IF n = 0 THEN "" ELSE Join(SubSeq(lines, 1, n))
  IN  count(prefix, "{") - count(prefix, "}")

\* C9: for the languages other than python, nesting_depth is the greatest
\* balance of braces over the line prefixes of the content, the empty
\* prefix included: the peak, at least 0.
NestingDepthIsPeak ==
  \A r \in returned :
    (r.result.success /\ r.result.language # "python") =>
      LET n == Len(split(r.code_content.val, "\n"))
          d == r.result.complexity.nesting_depth
      IN  /\ \A i \in 0..n : Balance(r.code_content.val, i) <= d
          /\ \E i \in 0..n : Balance(r.code_content.val, i) = d

\* C9 witness: braces that close more than they open after a peak of 1.
PeakAboveFinalBalance ==
  \E r \in returned :
    /\ r.result.success /\ r.result.language = "go"
    /\ r.result.complexity.nesting_depth = 1
    /\ Balance(r.code_content.val, Len(split(r.code_content.val, "\n"))) < 0

\* C10: the reported cyclomatic complexity is the lesser of 50 and 1 plus
\* the number of (line, keyword) pairs that qualify, for the keyword set of
\* the language.
CyclomaticCountsPairs ==
  \A r \in returned :
    r.result.success =>
      LET pairs == QualifyingPairs(r.code_content.val,
                     Range(complexity_keywords(r.result.language)))
      IN  /\ Uncapped(r) = 1 + Cardinality(pairs)
          /\ r.result.complexity.cyclomatic_complexity
                = min(1 + Cardinality(pairs), 50)

\* C10 witness: a line with while once and if twice adds 2.
TwoKeywordsOneRepeated ==
  \E r \in returned :
    /\ r.code_content = Str("        while x if y if z:")
    /\ r.result.language = "python"
    /\ r.result.complexity.cyclomatic_complexity = 3

=============================================================================
